---------------------------- MODULE Spec2Model ----------------------------
(***************************************************************************)
(* Model of TemplateMessageComposer                                        *)
(* (app-template/packages/typescript/src/contracts/                        *)
(*  Template.message-composer.ts).                                         *)
(*                                                                         *)
(* A JavaScript string is modelled as the sequence of its UTF-16 code      *)
(* units, a Uint8Array as a sequence of bytes, a JSON object as the        *)
(* ordered sequence of its <<key, value>> members, and an optional value   *)
(* (a parameter that may be omitted) as a record [present, coins].         *)
(***************************************************************************)
EXTENDS Integers, Sequences, FiniteSets, TLC

VARIABLES composer, constructedWith, task

vars == <<composer, constructedWith, task>>

-----------------------------------------------------------------------------
(* Bounds and input domains                                                *)

\* longest funds sequence a caller passes
MaxFunds == 2

Composers == {"A", "B"}

Tasks == {"t1", "t2"}

\* the value of `this` in a call that has no receiver
NoThis == "undefined"

\* ""
EmptyString == <<>>

\* "abstract1sender..."
SenderExample ==
    <<97, 98, 115, 116, 114, 97, 99, 116, 49, 115, 101, 110, 100, 101, 114, 46, 46, 46>>

\* "abstract1contract..."
ContractExample ==
    <<97, 98, 115, 116, 114, 97, 99, 116, 49, 99, 111, 110, 116, 114, 97, 99, 116, 46, 46, 46>>

\* "u-umlaut, euro sign, U+1F600 (a surrogate pair)"
NonAsciiSender == <<252, 8364, 55357, 56832>>

\* "e-acute, CJK U+5408"
NonAsciiContract == <<233, 21512>>

\* the (sender, contractAddress) pairs a composer is constructed with
Identities ==
    { <<SenderExample, ContractExample>>,
      <<NonAsciiSender, NonAsciiContract>>,
      <<EmptyString, EmptyString>> }

\* {denom: "uusd", amount: "100"}
Uusd100 == [denom |-> "uusd", amount |-> "100"]

\* {denom: "uatom", amount: "5"}
Uatom5 == [denom |-> "uatom", amount |-> "5"]

Coins == {Uusd100, Uatom5}

\* a sample coin list: both orders of two different coins and a repeated coin
FundsSample == <<Uusd100, Uatom5, Uatom5, Uusd100>>

\* the Coin[] values a caller passes: the contiguous runs of FundsSample that
\* are no longer than MaxFunds, the empty one included
CoinSeqs ==
    { SubSeq(FundsSample, r[1], r[2]) :
          r \in { q \in (1..(Len(FundsSample) + 1)) \X (0..Len(FundsSample)) :
                      /\ q[2] - q[1] + 1 >= 0
                      /\ q[2] - q[1] + 1 <= MaxFunds } }

\* the _funds parameter: omitted, or a Coin[]
Omitted == [present |-> FALSE, coins |-> <<>>]

Some(coins) == [present |-> TRUE, coins |-> coins]

FundsArgs == {Omitted} \cup { Some(s) : s \in CoinSeqs }

-----------------------------------------------------------------------------
(* Library functions the method calls                                      *)

\* "update_config"
UpdateConfigKey == <<117, 112, 100, 97, 116, 101, 95, 99, 111, 110, 102, 105, 103>>

\* lines 29-31: msg = { update_config: {} }
UpdateConfigMsg == << <<UpdateConfigKey, <<>> >> >>

\* "module": the key AppExecuteMsgFactory.executeApp nests the app message under
ModuleWrapperKey == <<109, 111, 100, 117, 108, 101>>

\* AppExecuteMsgFactory.executeApp(msg) = { module: msg }
executeApp(msg) == << <<ModuleWrapperKey, msg>> >>

\* JSON.stringify of a string that needs no escaping: the text in double quotes
Quote(str) == <<34>> \o str \o <<34>>

RECURSIVE JSONstringify(_)
RECURSIVE StringifyMembers(_, _)

\* the members of obj from index i on, "key":value joined by commas
StringifyMembers(obj, i) ==
    IF i > Len(obj) THEN <<>>
    ELSE Quote(obj[i][1]) \o <<58>> \o JSONstringify(obj[i][2])
         \o (IF i < Len(obj) THEN <<44>> ELSE <<>>)
         \o StringifyMembers(obj, i + 1)

\* JSON.stringify of an object whose values are objects: {"k":{...},...}
JSONstringify(obj) == <<123>> \o StringifyMembers(obj, 1) \o <<125>>

IsHighSurrogate(u) == u >= 55296 /\ u <= 56319

IsLowSurrogate(u) == u >= 56320 /\ u <= 57343

RECURSIVE CodePoints(_)

\* the Unicode code points of a UTF-16 string; a lone surrogate becomes U+FFFD
CodePoints(str) ==
    IF str = <<>> THEN <<>>
    ELSE IF IsHighSurrogate(str[1]) /\ Len(str) >= 2 /\ IsLowSurrogate(str[2])
         THEN <<65536 + (str[1] - 55296) * 1024 + (str[2] - 56320)>>
              \o CodePoints(SubSeq(str, 3, Len(str)))
         ELSE IF IsHighSurrogate(str[1]) \/ IsLowSurrogate(str[1])
              THEN <<65533>> \o CodePoints(Tail(str))
              ELSE <<str[1]>> \o CodePoints(Tail(str))

\* the UTF-8 bytes of one code point
EncodeCodePoint(cp) ==
    IF cp < 128 THEN <<cp>>
    ELSE IF cp < 2048 THEN <<192 + (cp \div 64), 128 + (cp % 64)>>
    ELSE IF cp < 65536
         THEN <<224 + (cp \div 4096), 128 + ((cp \div 64) % 64), 128 + (cp % 64)>>
         ELSE <<240 + (cp \div 262144), 128 + ((cp \div 4096) % 64),
                128 + ((cp \div 64) % 64), 128 + (cp % 64)>>

RECURSIVE EncodeAll(_)

EncodeAll(cps) ==
    IF cps = <<>> THEN <<>> ELSE EncodeCodePoint(cps[1]) \o EncodeAll(Tail(cps))

\* toUtf8(str) = new TextEncoder().encode(str)
toUtf8(str) == EncodeAll(CodePoints(str))

\* Coin.fromPartial: a fresh coin with the fields of the given one
CoinFromPartial(c) == [denom |-> c.denom, amount |-> c.amount]

\* MsgExecuteContract.fromPartial: a fresh message; funds is
\* object.funds?.map(Coin.fromPartial) || [], so omitted funds become []
fromPartial(object) ==
    [ sender   |-> object.sender,
      contract |-> object.contract,
      msg      |-> object.msg,
      funds    |-> IF object.funds.present
                   THEN Some([i \in 1..Len(object.funds.coins) |->
                                 CoinFromPartial(object.funds.coins[i])])
                   ELSE Some(<<>>) ]

-----------------------------------------------------------------------------
(* The composer                                                            *)

Unconstructed == [built |-> FALSE, sender |-> <<>>, contractAddress |-> <<>>]

\* an ordinary method that is not bound: `this` is the call's receiver
ThisOf_dynamic(fnOwner, thisArg) == thisArg

\* the arrow function of line 28, created in the constructor of composer c and
\* re-bound by line 25: `this` in its body is c, whatever the call's receiver
ThisOf(fnOwner, thisArg) == fnOwner

Idle ==
    [ pc |-> "idle", fnOwner |-> NoThis, receiver |-> NoThis, self |-> NoThis,
      funds |-> Omitted, moduleMsg |-> <<>>,
      result |-> [thrown |-> FALSE, typeUrl |-> "", value |-> <<>>] ]

TypeErrorResult == [thrown |-> TRUE, typeUrl |-> "", value |-> <<>>]

\* Envelope with a type URL that depends on whether coins are attached
Envelope_typeUrlByFunds(self, _funds, moduleMsg) ==
    [ thrown  |-> FALSE,
      typeUrl |-> IF _funds.present /\ _funds.coins /= <<>>
                  THEN "/cosmos.bank.v1beta1.MsgSend"
                  ELSE "/cosmwasm.wasm.v1.MsgExecuteContract",
      value   |-> fromPartial([ sender   |-> composer[self].sender,
                                contract |-> composer[self].contractAddress,
                                msg      |-> toUtf8(JSONstringify(moduleMsg)),
                                funds    |-> _funds ]) ]

\* Envelope with sender and contract exchanged
Envelope_swapped(self, _funds, moduleMsg) ==
    [ thrown  |-> FALSE,
      typeUrl |-> "/cosmwasm.wasm.v1.MsgExecuteContract",
      value   |-> fromPartial([ sender   |-> composer[self].contractAddress,
                                contract |-> composer[self].sender,
                                msg      |-> toUtf8(JSONstringify(moduleMsg)),
                                funds    |-> _funds ]) ]

\* Envelope that serializes msg instead of moduleMsg (the wrapper is lost)
Envelope_unwrapped(self, _funds, moduleMsg) ==
    [ thrown  |-> FALSE,
      typeUrl |-> "/cosmwasm.wasm.v1.MsgExecuteContract",
      value   |-> fromPartial([ sender   |-> composer[self].sender,
                                contract |-> composer[self].contractAddress,
                                msg      |-> toUtf8(JSONstringify(moduleMsg[1][2])),
                                funds    |-> _funds ]) ]

\* Envelope that keeps only the first coin of _funds
Envelope_firstCoinOnly(self, _funds, moduleMsg) ==
    [ thrown  |-> FALSE,
      typeUrl |-> "/cosmwasm.wasm.v1.MsgExecuteContract",
      value   |-> fromPartial([ sender   |-> composer[self].sender,
                                contract |-> composer[self].contractAddress,
                                msg      |-> toUtf8(JSONstringify(moduleMsg)),
                                funds    |-> IF _funds.present /\ Len(_funds.coins) > 1
                                             THEN Some(<<_funds.coins[1]>>)
                                             ELSE _funds ]) ]

\* Envelope built as a plain object literal, without MsgExecuteContract.fromPartial
Envelope_withoutFromPartial(self, _funds, moduleMsg) ==
    [ thrown  |-> FALSE,
      typeUrl |-> "/cosmwasm.wasm.v1.MsgExecuteContract",
      value   |-> [ sender   |-> composer[self].sender,
                    contract |-> composer[self].contractAddress,
                    msg      |-> toUtf8(JSONstringify(moduleMsg)),
                    funds    |-> _funds ] ]

\* lines 33-41: the returned encode object
Envelope(self, _funds, moduleMsg) ==
    [ thrown  |-> FALSE,
      typeUrl |-> "/cosmwasm.wasm.v1.MsgExecuteContract",
      value   |-> fromPartial([ sender   |-> composer[self].sender,
                                contract |-> composer[self].contractAddress,
                                msg      |-> toUtf8(JSONstringify(moduleMsg)),
                                funds    |-> _funds ]) ]

Init ==
    /\ composer = [c \in Composers |-> Unconstructed]
    /\ constructedWith = [c \in Composers |-> Unconstructed]
    /\ task = [t \in Tasks |-> Idle]

\* a constructor that rejects an empty sender or contract address
Construct_validating(c, sender, contractAddress) ==
    /\ ~composer[c].built
    /\ sender /= <<>> /\ contractAddress /= <<>>
    /\ composer' = [composer EXCEPT ![c] =
           [built |-> TRUE, sender |-> sender, contractAddress |-> contractAddress]]
    /\ constructedWith' = [constructedWith EXCEPT ![c] =
           [built |-> TRUE, sender |-> sender, contractAddress |-> contractAddress]]
    /\ UNCHANGED task

\* new TemplateMessageComposer(sender, contractAddress)
Construct(c, sender, contractAddress) ==
    /\ ~composer[c].built
    /\ composer' = [composer EXCEPT ![c] =
           [built |-> TRUE, sender |-> sender, contractAddress |-> contractAddress]]
    /\ constructedWith' = [constructedWith EXCEPT ![c] =
           [built |-> TRUE, sender |-> sender, contractAddress |-> contractAddress]]
    /\ UNCHANGED task

\* task t calls the updateConfig function created by composer fnOwner with
\* receiver thisArg (fnOwner itself, another composer, or none) and _funds
Call(t, fnOwner, thisArg, _funds) ==
    /\ task[t].pc = "idle"
    /\ composer[fnOwner].built
    /\ thisArg \in Composers => composer[thisArg].built
    /\ task' = [task EXCEPT ![t] =
           [Idle EXCEPT !.pc = "L29", !.fnOwner = fnOwner,
                        !.receiver = thisArg,
                        !.self = ThisOf(fnOwner, thisArg),
                        !.funds = _funds]]
    /\ UNCHANGED <<composer, constructedWith>>

\* lines 29-32: msg = {update_config: {}}; moduleMsg = executeApp(msg)
BuildMsg(t) ==
    /\ task[t].pc = "L29"
    /\ task' = [task EXCEPT ![t].pc = "L33",
                            ![t].moduleMsg = executeApp(UpdateConfigMsg)]
    /\ UNCHANGED <<composer, constructedWith>>

Reverse(seq) == [i \in 1..Len(seq) |-> seq[Len(seq) + 1 - i]]

ReturnValue(t) ==
    IF task[t].self = NoThis THEN TypeErrorResult
    ELSE Envelope(task[t].self, task[t].funds, task[t].moduleMsg)

\* a return that also clears this.sender
Return_clearsSender(t) ==
    /\ task[t].pc = "L33"
    /\ task' = [task EXCEPT ![t].pc = "done", ![t].result = ReturnValue(t)]
    /\ composer' = IF task[t].self = NoThis THEN composer
                   ELSE [composer EXCEPT ![task[t].self].sender = <<>>]
    /\ UNCHANGED constructedWith

\* a return that also reverses the caller's _funds array in place
Return_reversesFunds(t) ==
    /\ task[t].pc = "L33"
    /\ task' = [task EXCEPT ![t].pc = "done", ![t].result = ReturnValue(t),
                            ![t].funds.coins = Reverse(task[t].funds.coins)]
    /\ UNCHANGED <<composer, constructedWith>>

\* a return that reads _funds from a slot shared by the calls in progress: the
\* funds of another call that is in progress, when there is one
Return_sharedFunds(t) ==
    /\ task[t].pc = "L33"
    /\ LET others == { u \in Tasks \ {t} : task[u].pc \in {"L29", "L33"} }
           seen   == IF others = {} THEN task[t].funds
                     ELSE task[CHOOSE u \in others : TRUE].funds
       IN task' = [task EXCEPT ![t].pc = "done",
                               ![t].result =
                                   IF task[t].self = NoThis THEN TypeErrorResult
                                   ELSE Envelope(task[t].self, seen, task[t].moduleMsg)]
    /\ UNCHANGED <<composer, constructedWith>>

\* lines 33-41: read this.sender and this.contractAddress, return the envelope
Return(t) ==
    /\ task[t].pc = "L33"
    /\ task' = [task EXCEPT ![t].pc = "done", ![t].result = ReturnValue(t)]
    /\ UNCHANGED <<composer, constructedWith>>

\* the caller is done with the envelope
Consume(t) ==
    /\ task[t].pc = "done"
    /\ task' = [task EXCEPT ![t] = Idle]
    /\ UNCHANGED <<composer, constructedWith>>

Next ==
    \/ \E c \in Composers : \E id \in Identities : Construct(c, id[1], id[2])
    \/ \E t \in Tasks : \E c \in Composers : \E thisArg \in Composers \cup {NoThis} :
           \E f \in FundsArgs : Call(t, c, thisArg, f)
    \/ \E t \in Tasks : BuildMsg(t)
    \/ \E t \in Tasks : Return(t)
    \/ \E t \in Tasks : Consume(t)

Spec == Init /\ [][Next]_vars

-----------------------------------------------------------------------------
(* Decoding, used to state the properties of the payload                   *)

RECURSIVE DecodeUtf8(_)

\* the code points of a UTF-8 byte sequence; an ill-formed byte becomes U+FFFD
DecodeUtf8(b) ==
    IF b = <<>> THEN <<>>
    ELSE IF b[1] < 128 THEN <<b[1]>> \o DecodeUtf8(Tail(b))
    ELSE IF b[1] >= 192 /\ b[1] < 224 /\ Len(b) >= 2
         THEN <<(b[1] - 192) * 64 + (b[2] - 128)>> \o DecodeUtf8(SubSeq(b, 3, Len(b)))
    ELSE IF b[1] >= 224 /\ b[1] < 240 /\ Len(b) >= 3
         THEN <<(b[1] - 224) * 4096 + (b[2] - 128) * 64 + (b[3] - 128)>>
              \o DecodeUtf8(SubSeq(b, 4, Len(b)))
    ELSE IF b[1] >= 240 /\ b[1] < 248 /\ Len(b) >= 4
         THEN <<(b[1] - 240) * 262144 + (b[2] - 128) * 4096
                + (b[3] - 128) * 64 + (b[4] - 128)>>
              \o DecodeUtf8(SubSeq(b, 5, Len(b)))
    ELSE <<65533>> \o DecodeUtf8(Tail(b))

RECURSIVE ToUtf16(_)

ToUtf16(cps) ==
    IF cps = <<>> THEN <<>>
    ELSE IF cps[1] >= 65536
         THEN <<55296 + ((cps[1] - 65536) \div 1024), 56320 + ((cps[1] - 65536) % 1024)>>
              \o ToUtf16(Tail(cps))
         ELSE <<cps[1]>> \o ToUtf16(Tail(cps))

\* fromUtf8(bytes): the string the bytes encode
fromUtf8(b) == ToUtf16(DecodeUtf8(b))

ParseFail == [ok |-> FALSE, value |-> <<>>, next |-> 0]

\* the index of the first double quote of s at or after i, 0 when there is none
\* or a backslash comes first
RECURSIVE ClosingQuote(_, _)

ClosingQuote(s, i) ==
    IF i > Len(s) \/ s[i] = 92 THEN 0
    ELSE IF s[i] = 34 THEN i ELSE ClosingQuote(s, i + 1)

\* a JSON string starting at s[i]
ParseString(s, i) ==
    IF i > Len(s) \/ s[i] /= 34 THEN ParseFail
    ELSE LET j == ClosingQuote(s, i + 1)
         IN IF j = 0 THEN ParseFail
            ELSE [ok |-> TRUE, value |-> SubSeq(s, i + 1, j - 1), next |-> j + 1]

RECURSIVE ParseObject(_, _)
RECURSIVE ParseMembers(_, _, _)

\* the members "key":value,... of an object, s[i] being the first key's quote
ParseMembers(s, i, acc) ==
    LET k == ParseString(s, i)
    IN IF ~k.ok \/ k.next > Len(s) \/ s[k.next] /= 58 THEN ParseFail
       ELSE LET v == ParseObject(s, k.next + 1)
            IN IF ~v.ok \/ v.next > Len(s) THEN ParseFail
               ELSE IF s[v.next] = 44
                    THEN ParseMembers(s, v.next + 1, Append(acc, <<k.value, v.value>>))
                    ELSE IF s[v.next] = 125
                         THEN [ok |-> TRUE, value |-> Append(acc, <<k.value, v.value>>),
                               next |-> v.next + 1]
                         ELSE ParseFail

\* a JSON object starting at s[i], all of whose values are objects
ParseObject(s, i) ==
    IF i + 1 > Len(s) \/ s[i] /= 123 THEN ParseFail
    ELSE IF s[i + 1] = 125 THEN [ok |-> TRUE, value |-> <<>>, next |-> i + 2]
    ELSE ParseMembers(s, i + 1, <<>>)

\* JSON.parse(s) for a text that is one such object
JSONparse(s) ==
    LET r == ParseObject(s, 1)
    IN IF r.ok /\ r.next = Len(s) + 1 THEN r ELSE ParseFail

Done(t) == task[t].pc = "done"

\* t made an ordinary method call, composer.updateConfig(...)
OnOwner(t) == task[t].receiver = task[t].fnOwner

-----------------------------------------------------------------------------
(* Properties                                                              *)

\* C1: every envelope updateConfig returns, for any composer and any funds
\* argument (omitted, empty or non-empty), has typeUrl
\* "/cosmwasm.wasm.v1.MsgExecuteContract".
C1_FixedTypeUrl ==
    \A t \in Tasks :
        Done(t) => /\ ~task[t].result.thrown
                   /\ task[t].result.typeUrl = "/cosmwasm.wasm.v1.MsgExecuteContract"

\* two calls have returned, one with funds omitted and one with two coins
C1_Witness ==
    /\ Done("t1") /\ task["t1"].funds = Omitted
    /\ Done("t2") /\ task["t2"].funds.present /\ Len(task["t2"].funds.coins) = 2

\* C2: an envelope returned by composer.updateConfig carries the sender and the
\* contractAddress the composer was constructed with, in that order, also for
\* non-ASCII strings and after earlier calls on the same composer.
C2_IdentityPassThrough ==
    \A t \in Tasks :
        Done(t) /\ OnOwner(t) =>
            /\ ~task[t].result.thrown
            /\ task[t].result.value.sender = constructedWith[task[t].fnOwner].sender
            /\ task[t].result.value.contract =
                   constructedWith[task[t].fnOwner].contractAddress

\* two calls on one composer built with non-ASCII identities have returned
C2_Witness ==
    /\ \A t \in Tasks : Done(t) /\ OnOwner(t) /\ task[t].fnOwner = "A"
    /\ constructedWith["A"].sender = NonAsciiSender
    /\ constructedWith["A"].contractAddress = NonAsciiContract
    /\ task["t1"].result.value.sender = NonAsciiSender
    /\ task["t1"].result.value.contract = NonAsciiContract

\* C3: decoding value.msg as UTF-8 and parsing it as JSON gives an object with
\* exactly one key, the module wrapper key, whose value is an object with
\* exactly one key "update_config" whose value is the empty object, whatever
\* the sender, the contractAddress and the funds.
C3_PayloadRoundTrip ==
    \A t \in Tasks :
        Done(t) =>
            /\ ~task[t].result.thrown
            /\ LET p == JSONparse(fromUtf8(task[t].result.value.msg))
               IN /\ p.ok
                  /\ Len(p.value) = 1
                  /\ p.value[1][1] = ModuleWrapperKey
                  /\ Len(p.value[1][2]) = 1
                  /\ p.value[1][2][1][1] = UpdateConfigKey
                  /\ p.value[1][2][1][2] = <<>>

\* two calls that differ in composer identity and in funds have returned
C3_Witness ==
    /\ Done("t1") /\ Done("t2")
    /\ task["t1"].fnOwner /= task["t2"].fnOwner
    /\ constructedWith["A"] /= constructedWith["B"]
    /\ task["t1"].funds = Omitted
    /\ task["t2"].funds.present /\ task["t2"].funds.coins /= <<>>
    /\ JSONparse(fromUtf8(task["t1"].result.value.msg)).ok

\* C4: with funds omitted the envelope's funds are empty; with a funds sequence
\* given, the envelope's funds are that sequence: same coins, same length, same
\* order.
C4_FundsPassThrough ==
    \A t \in Tasks :
        Done(t) =>
            /\ ~task[t].result.thrown
            /\ task[t].result.value.funds.coins = task[t].funds.coins
            /\ ~task[t].funds.present => task[t].result.value.funds.coins = <<>>

\* a call with funds omitted and a call with two different coins have returned
C4_Witness ==
    /\ Done("t1") /\ task["t1"].funds = Omitted
    /\ task["t1"].result.value.funds.coins = <<>>
    /\ Done("t2") /\ task["t2"].funds.present
    /\ Len(task["t2"].funds.coins) = 2
    /\ task["t2"].funds.coins[1] = Uusd100
    /\ task["t2"].funds.coins[2] = Uatom5
    /\ task["t2"].result.value.funds.coins = task["t2"].funds.coins

\* C5: two updateConfig calls with the same funds, on one composer or on two
\* composers constructed with the same sender and contractAddress, return equal
\* envelopes (typeUrl, sender, contract, msg bytes, funds), whatever calls were
\* made in between.
C5_Determinism ==
    \A t, u \in Tasks :
        /\ Done(t) /\ Done(u)
        /\ constructedWith[task[t].fnOwner] = constructedWith[task[u].fnOwner]
        /\ task[t].funds = task[u].funds
        => task[t].result = task[u].result

\* two calls with the same two coins on two composers built alike have returned
C5_Witness ==
    /\ Done("t1") /\ Done("t2")
    /\ task["t1"].fnOwner = "A" /\ task["t2"].fnOwner = "B"
    /\ constructedWith["A"] = constructedWith["B"]
    /\ constructedWith["A"].sender = NonAsciiSender
    /\ task["t1"].funds = task["t2"].funds
    /\ task["t1"].funds.present /\ Len(task["t1"].funds.coins) = 2
    /\ task["t1"].result = task["t2"].result

\* the UTF-8 bytes of {"module":{"update_config":{}}}
C6_ExpectedMsg ==
    <<123, 34>> \o ModuleWrapperKey \o <<34, 58, 123, 34>> \o UpdateConfigKey
    \o <<34, 58, 123, 125, 125, 125>>

\* t called updateConfig() with no funds on a composer constructed with
\* ("abstract1sender...", "abstract1contract...") and the call has returned
C6_Case(t) ==
    /\ Done(t) /\ OnOwner(t)
    /\ constructedWith[task[t].fnOwner].sender = SenderExample
    /\ constructedWith[task[t].fnOwner].contractAddress = ContractExample
    /\ task[t].funds = Omitted

\* C6 as stated: the end-to-end example's envelope has the fixed typeUrl, the
\* example sender and contract, the wrapped payload bytes, and value.funds
\* undefined.
C6_AsStated ==
    \A t \in Tasks :
        C6_Case(t) =>
            /\ task[t].result.typeUrl = "/cosmwasm.wasm.v1.MsgExecuteContract"
            /\ task[t].result.value.sender = SenderExample
            /\ task[t].result.value.contract = ContractExample
            /\ task[t].result.value.msg = C6_ExpectedMsg
            /\ ~task[t].result.value.funds.present

\* C6 (amended): the end-to-end example's envelope has the fixed typeUrl, the
\* example sender and contract, the wrapped payload bytes, and value.funds the
\* empty sequence.
C6_EndToEnd ==
    \A t \in Tasks :
        C6_Case(t) =>
            /\ ~task[t].result.thrown
            /\ task[t].result.typeUrl = "/cosmwasm.wasm.v1.MsgExecuteContract"
            /\ task[t].result.value.sender = SenderExample
            /\ task[t].result.value.contract = ContractExample
            /\ task[t].result.value.msg = C6_ExpectedMsg
            /\ task[t].result.value.funds = Some(<<>>)

\* the example call has returned
C6_Witness == C6_Case("t1") /\ task["t1"].result.value.msg = C6_ExpectedMsg

C8_NoSideEffects ==
    /\ [](\A c \in Composers : composer[c] = constructedWith[c])
    /\ [][ /\ \A c \in Composers : composer[c].built => composer'[c] = composer[c]
           /\ \A t \in Tasks :
                  task[t].pc \in {"L29", "L33"} => task'[t].funds = task[t].funds ]_vars

\* a call with two different coins has returned and left them and the composer
\* as they were
C8_Witness ==
    /\ Done("t1") /\ task["t1"].funds.present
    /\ Len(task["t1"].funds.coins) = 2
    /\ task["t1"].funds.coins[1] /= task["t1"].funds.coins[2]
    /\ task["t1"].result.value.funds.coins = task["t1"].funds.coins
    /\ composer[task["t1"].fnOwner] = constructedWith[task["t1"].fnOwner]
    /\ composer[task["t1"].fnOwner].sender = SenderExample

\* C9: however the steps of the tasks' calls on a shared composer interleave,
\* every call returns the envelope it would return alone, and a step of one
\* task leaves the other tasks' calls untouched.
C9_ConcurrentCalls ==
    /\ [](\A t \in Tasks :
              /\ task[t].pc = "L33" => task[t].moduleMsg = executeApp(UpdateConfigMsg)
              /\ Done(t) =>
                     task[t].result =
                         Envelope(task[t].fnOwner, task[t].funds, executeApp(UpdateConfigMsg)))
    /\ [][ \A t, u \in Tasks : t /= u /\ task'[t] /= task[t] => task'[u] = task[u] ]_vars

\* one call has returned while another call on the same composer, with other
\* funds, is between its two steps
C9_Witness ==
    /\ Done("t1") /\ task["t2"].pc = "L33"
    /\ task["t1"].fnOwner = task["t2"].fnOwner
    /\ OnOwner("t1") /\ OnOwner("t2")
    /\ task["t1"].funds /= task["t2"].funds
    /\ task["t1"].funds.present /\ task["t1"].funds.coins /= <<>>
    /\ task["t1"].result.value.funds = task["t1"].funds

\* C10: an updateConfig function taken from composer A and called with no
\* receiver, or through another composer B, returns an envelope with A's sender
\* and A's contractAddress.
C10_BoundToOwner ==
    \A t \in Tasks :
        Done(t) /\ ~OnOwner(t) =>
            /\ ~task[t].result.thrown
            /\ task[t].result.value.sender = constructedWith[task[t].fnOwner].sender
            /\ task[t].result.value.contract =
                   constructedWith[task[t].fnOwner].contractAddress

\* A's function has returned from a call with no receiver and from a call
\* through B, B built with other identities
C10_Witness ==
    /\ Done("t1") /\ Done("t2")
    /\ task["t1"].fnOwner = "A" /\ task["t1"].receiver = NoThis
    /\ task["t2"].fnOwner = "A" /\ task["t2"].receiver = "B"
    /\ constructedWith["A"].sender = SenderExample
    /\ constructedWith["B"].sender = NonAsciiSender
    /\ task["t2"].result.value.sender = SenderExample
    /\ task["t1"].result.value.sender = SenderExample

=============================================================================
